---- MODULE Spec2Model ----
(***************************************************************************)
(* Android Test Report action (src/index.mjs, lines 1-358): main() walks   *)
(* the discovered TEST-*.xml files, parseXML() turns each into a summary   *)
(* record plus optional failure / skip tables, main() folds them into the  *)
(* job summary (core.summary) and the top-level try/catch writes it.       *)
(* SpecCallback is the variant of lines 360-492, whose parseXML reads the  *)
(* files with fs.readFile and a callback.                                  *)
(*                                                                         *)
(* Strings whose characters matter (labels, anchor ids, cell texts) are    *)
(* sequences of one-character strings; "#user-content-" is kept as one     *)
(* token because nothing looks inside it.                                  *)
(***************************************************************************)
EXTENDS Integers, Sequences, FiniteSets, TLC

VARIABLES
    pc,            \* position of the top-level script: start, loop, finish, write, done
                   \* (crashed: ended by an exception nothing caught)
    showSkipped,   \* parseBoolean(core.getInput("show-skipped"))
    schema,        \* the attribute set the report files of this run declare
    nFiles,        \* files.length, the number of discovered report files
    idx,           \* number of forEach callbacks that have been entered
    report,        \* the buffer of core.summary: sequence of blocks
    summaryTable,  \* main's summaryTable (header row included)
    summaryTotal,  \* main's summaryTotal
    failures,      \* main's failures object: insertion-ordered <<key, table>> entries
    skips,         \* main's skips object
    log,           \* per forEach callback entered: the file read and what was derived from it
    reads,         \* per file whose read has begun: "pending", "added" or "thrown"
    failedMsg,     \* sequence of messages given to core.setFailed
    written,       \* the outcome of each core.summary.write() call made: "ok" or "rejected"
    anchorIn,      \* makeAnchorId's argument in the anchor specification
    anchorOut      \* makeAnchorId's result there

vars == <<pc, showSkipped, schema, nFiles, idx, report, summaryTable, summaryTotal,
          failures, skips, log, reads, failedMsg, written, anchorIn, anchorOut>>

----------------------------------------------------------------------------
(* Bounds of the model *)

\* at most this many report files are discovered
MaxFiles == 2
\* at most this many <testcase> elements are read in one run
MaxCases == 2
\* the declared skipped, failures and errors counts read in one run add up to at most this
MaxCount == 2
\* longest label given to makeAnchorId in the anchor specification
MaxLabelLen == 2
\* at most this many report files are discovered in the callback-based variant
MaxReads == 4

----------------------------------------------------------------------------
(* Characters and strings *)

LowerSeq == <<"a", "b", "c", "d", "e", "f", "g", "h", "i", "j", "k", "l", "m",
             "n", "o", "p", "q", "r", "s", "t", "u", "v", "w", "x", "y", "z">>
UpperSeq == <<"A", "B", "C", "D", "E", "F", "G", "H", "I", "J", "K", "L", "M",
             "N", "O", "P", "Q", "R", "S", "T", "U", "V", "W", "X", "Y", "Z">>
Lower == { LowerSeq[i] : i \in 1..26 }
Upper == { UpperSeq[i] : i \in 1..26 }
Digit == {"0", "1", "2", "3", "4", "5", "6", "7", "8", "9"}

\* String.prototype.toLowerCase on one character
toLowerCase(c) ==
    IF c \in Upper THEN LowerSeq[CHOOSE i \in 1..26 : UpperSeq[i] = c] ELSE c

\* where.replace(/([a-z0-9])([A-Z])/g, '$1-$2'): a hyphen goes in front of every
\* upper-case letter that directly follows a lower-case letter or a digit
\* (the two groups are disjoint classes, so matches never overlap)
RECURSIVE InsertHyphens(_, _)
InsertHyphens(s, i) ==
    IF i > Len(s) THEN <<>>
    ELSE (IF i > 1 /\ s[i] \in Upper /\ s[i - 1] \in (Lower \cup Digit)
          THEN <<"-", s[i]>> ELSE <<s[i]>>) \o InsertHyphens(s, i + 1)

\* kebabCase.replace(/[^a-z0-9]/g, '-') after .toLowerCase()
kebabCase(where) ==
    LET hy == InsertHyphens(where, 1)
        lo == [i \in 1..Len(hy) |-> toLowerCase(hy[i])]
    IN  [i \in 1..Len(lo) |-> IF lo[i] \in (Lower \cup Digit) THEN lo[i] ELSE "-"]

failurePostfix == <<"f", "a", "i", "l", "u", "r", "e", "s">>
skipPostfix == <<"s", "k", "i", "p", "p", "e", "d">>
NoPostfix == <<>>
BackPrefix == <<"b", "a", "c", "k", "-", "t", "o", "-">>

\* makeAnchorId without the "back-to-" prefix of line 77
makeAnchorIdNoBack(where, postfix, back) ==
    LET k == kebabCase(where)
    IN  IF postfix # <<>> THEN k \o <<"-">> \o postfix ELSE k

\* makeAnchorId({where, postfix, back}); a null where makes where.replace throw
makeAnchorId(where, postfix, back) ==
    LET k == kebabCase(where)
        p == IF postfix # <<>> THEN k \o <<"-">> \o postfix ELSE k
    IN  IF back THEN BackPrefix \o p ELSE p

\* makeJumpLink(options)
makeJumpLink(where, postfix, back) == <<"#user-content-">> \o makeAnchorId(where, postfix, back)

\* Number.prototype.toString for a natural number
RECURSIVE toString(_)
toString(n) ==
    LET d == <<"0", "1", "2", "3", "4", "5", "6", "7", "8", "9">>
    IN  IF n < 10 THEN <<d[n + 1]>> ELSE toString(n \div 10) \o <<d[(n % 10) + 1]>>

\* parseInt on a string of decimal digits
RECURSIVE parseInt(_)
parseInt(s) ==
    LET v(c) == CHOOSE n \in 0..9 : toString(n) = <<c>>
    IN  IF Len(s) = 0 THEN 0
        ELSE 10 * parseInt(SubSeq(s, 1, Len(s) - 1)) + v(s[Len(s)])

----------------------------------------------------------------------------
(* Tables and cells (SummaryTableRow of @actions/core) *)

\* { data: text }
Cell(text) == [text |-> text]
\* { data: text, header: true }
HeaderCell(text) == [text |-> text, header |-> TRUE]
\* { data: `<a href="${href}" id="${id}">${value}</a>` }
LinkCell(href, id, text) == [text |-> text, href |-> href, id |-> id]
IsLink(cell) == "href" \in DOMAIN cell

createSummaryTable ==
    << <<HeaderCell(<<"Name">>), HeaderCell(<<"Tests">>), HeaderCell(<<"Skipped">>),
         HeaderCell(<<"Failures">>), HeaderCell(<<"Errors">>), HeaderCell(<<"Timestamp">>),
         HeaderCell(<<"Time (s)">>)>> >>

createFailureTable ==
    << <<HeaderCell(<<"Test Name">>), HeaderCell(<<"Failure Message">>),
         HeaderCell(<<"Failure Type">>), HeaderCell(<<"Time (s)">>),
         HeaderCell(<<"Stack Trace">>)>> >>

createSkippedTable ==
    << <<HeaderCell(<<"Test Name">>), HeaderCell(<<"Class Name">>), HeaderCell(<<"Time (s)">>)>> >>

\* a table variable that is still null
NullTable == <<>>
\* `failure && failure[1][0].data` when failure is null
NullWhere == <<"null">>

----------------------------------------------------------------------------
(* The decoded report files *)

NA == <<"N", "/", "A">>
CountKeys == {"tests", "skipped", "failures", "errors"}

\* attribute sets a run's report files declare, in document order: the one the Android
\* Gradle plugin writes, one without skipped, timestamp and hostname, and one that also
\* declares package
StandardSchema ==
    <<"name", "tests", "skipped", "failures", "errors", "timestamp", "hostname", "time">>

Schemas ==
    { StandardSchema,
      <<"name", "tests", "failures", "errors", "time">>,
      <<"name", "package", "tests", "skipped", "failures", "errors", "timestamp", "hostname", "time">> }

\* test names; both have the same kebab-case form
CaseNames == { <<"a", "B">>, <<"a", "-", "b">> }

\* the name of a passed test is read by nothing, so one name stands for all of them
TestCases ==
    [name : CaseNames, outcome : {"Failed", "Skipped"}, time : {<<"1">>}]
        \cup { [name |-> <<"a", "B">>, outcome |-> "Passed", time |-> <<"1">>] }

\* the test name that is also the name of the prototype accessor of a plain object
Proto == <<"_", "_", "p", "r", "o", "t", "o", "_", "_">>

\* test cases that differ in their time attribute as well, so that suites whose first
\* failed or skipped case has the same name can have different detail tables, and test
\* cases named __proto__
TimedCases ==
    [name : {<<"a", "B">>}, outcome : {"Failed", "Skipped"}, time : {<<"1">>, <<"2">>}]
        \cup [name : {Proto}, outcome : {"Failed", "Skipped"}, time : {<<"1">>}]
        \cup { [name |-> <<"a", "B">>, outcome |-> "Passed", time |-> <<"1">>] }

\* the attributes (elem.$) of a <testcase>, in document order
caseAttributes(c) ==
    << <<"name", c.name>>, <<"classname", <<"c">> >>, <<"time", c.time>> >>

\* the value a schema's attribute carries in a file whose counts are cnt
attrValue(key, cnt) ==
    CASE key \in CountKeys -> toString(cnt[key])
      [] key = "name" -> <<"S">>
      [] key = "timestamp" -> <<"t">>
      [] key = "time" -> <<"1">>
      [] OTHER -> <<"x">>

\* a report file: fault says whether reading or decoding it fails
SuiteFile(fault, sch, cnt, cases) ==
    [fault |-> fault,
     attrs |-> [i \in 1..Len(sch) |-> <<sch[i], attrValue(sch[i], cnt)>>],
     cases |-> cases]

\* the skipped, failures and errors counts a file of schema sch can declare when
\* maxCount is left of the run's bound; they are independent of the file's cases
CountChoices(sch, maxCount) ==
    { c \in [{"skipped", "failures", "errors"} -> 0..maxCount] :
        /\ \A k \in DOMAIN c : (\A i \in 1..Len(sch) : sch[i] # k) => c[k] = 0
        /\ c["skipped"] + c["failures"] + c["errors"] <= maxCount }

\* a file with these counts and cases; tests is the number of <testcase> elements
GoodFile(sch, c, cases) ==
    SuiteFile("none", sch, [k \in CountKeys |-> IF k = "tests" THEN Len(cases) ELSE c[k]], cases)

\* a file that cannot be read ("read") or is not well-formed XML ("xml")
BadFile(sch, fault) == SuiteFile(fault, sch, [k \in CountKeys |-> 0], <<>>)

declared(suite, key) ==
    IF \E i \in 1..Len(suite.attrs) : suite.attrs[i][1] = key
    THEN parseInt(suite.attrs[CHOOSE i \in 1..Len(suite.attrs) : suite.attrs[i][1] = key][2])
    ELSE 0

----------------------------------------------------------------------------
(* parseXML (src/index.mjs lines 98-204) *)

\* summaryData as declared on lines 113-121: <<key, value>> pairs in insertion order;
\* the four counts are numbers, every other value is a string
initialSummaryData ==
    << <<"name", NA>>, <<"tests", 0>>, <<"skipped", 0>>, <<"failures", 0>>,
       <<"errors", 0>>, <<"timestamp", NA>>, <<"time", <<"0">> >> >>

\* summaryData[key] = value: an existing key keeps its place, a new key goes last
setKey(obj, key, value) ==
    IF \E i \in 1..Len(obj) : obj[i][1] = key
    THEN [i \in 1..Len(obj) |-> IF obj[i][1] = key THEN <<key, value>> ELSE obj[i]]
    ELSE Append(obj, <<key, value>>)

\* the loop over Object.entries(attributes), lines 131-143
RECURSIVE copyAttributes(_, _, _)
copyAttributes(attrs, i, summaryData) ==
    IF i > Len(attrs) THEN summaryData
    ELSE LET dataName == attrs[i][1]
             dataValue == attrs[i][2]
         IN  IF dataName = "hostname" THEN copyAttributes(attrs, i + 1, summaryData)
             ELSE IF dataName \in CountKeys
                  THEN copyAttributes(attrs, i + 1, setKey(summaryData, dataName, parseInt(dataValue)))
                  ELSE copyAttributes(attrs, i + 1, setKey(summaryData, dataName, dataValue))

\* errorRow of lines 160-176: name, message, type, time, stack trace
errorRow(c) ==
    <<Cell(c.name), Cell(<<"msg">>), Cell(<<"type">>), Cell(c.time), Cell(<<"trace">>)>>

\* skipRow of lines 187-191: every attribute of the test case, as a string
skipRow(c) ==
    LET a == caseAttributes(c) IN [i \in 1..Len(a) |-> Cell(a[i][2])]

\* the failure table with the rows put in front instead of pushed at the end
RECURSIVE errorTableReversed(_, _, _)
errorTableReversed(cases, i, errorTable) ==
    IF i > Len(cases) THEN errorTable
    ELSE IF cases[i].outcome = "Failed"
         THEN errorTableReversed(cases, i + 1,
                  IF errorTable = NullTable THEN Append(createFailureTable, errorRow(cases[i]))
                  ELSE <<errorTable[1], errorRow(cases[i])>> \o Tail(errorTable))
         ELSE errorTableReversed(cases, i + 1, errorTable)

\* the `if (elem.failure)` branch of root.testcase.forEach, lines 148-179
RECURSIVE buildErrorTable(_, _, _)
buildErrorTable(cases, i, errorTable) ==
    IF i > Len(cases) THEN errorTable
    ELSE IF cases[i].outcome = "Failed"
         THEN buildErrorTable(cases, i + 1,
                  Append(IF errorTable = NullTable THEN createFailureTable ELSE errorTable,
                         errorRow(cases[i])))
         ELSE buildErrorTable(cases, i + 1, errorTable)

\* the `if (elem.skipped)` branch of root.testcase.forEach, lines 181-193
RECURSIVE buildSkippedTable(_, _, _)
buildSkippedTable(cases, i, skippedTable) ==
    IF i > Len(cases) THEN skippedTable
    ELSE IF cases[i].outcome = "Skipped"
         THEN buildSkippedTable(cases, i + 1,
                  Append(IF skippedTable = NullTable THEN createSkippedTable ELSE skippedTable,
                         skipRow(cases[i])))
         ELSE buildSkippedTable(cases, i + 1, skippedTable)

\* parseXML(xmlFile): thrown is "read" when fs.readFileSync throws, "xml" when the
\* parser reports an error (line 127), "testcase" when the suite has no <testcase>
\* child, so that root.testcase is undefined on line 145
parseXML(file) ==
    IF file.fault # "none"
    THEN [file |-> file, thrown |-> file.fault, summary |-> <<>>, failure |-> NullTable,
          skip |-> NullTable]
    ELSE IF Len(file.cases) = 0
    THEN [file |-> file, thrown |-> "testcase", summary |-> <<>>, failure |-> NullTable,
          skip |-> NullTable]
    ELSE [file |-> file, thrown |-> "none",
          summary |-> copyAttributes(file.attrs, 1, initialSummaryData),
          failure |-> buildErrorTable(file.cases, 1, NullTable),
          skip |-> buildSkippedTable(file.cases, 1, NullTable)]

----------------------------------------------------------------------------
(* main (src/index.mjs lines 220-346) *)

\* `failure && failure[1][0].data`, lines 264-265
whereOf(table) ==
    IF table = NullTable THEN NullWhere ELSE table[2][1].text

\* summaryTotal of lines 251-259 (name and timestamp are the fixed strings)
initialSummaryTotal ==
    [tests |-> 0, skipped |-> 0, failures |-> 0, errors |-> 0, time |-> 0]

\* the second switch of the row loop, lines 288-304, with `=` written for `+=`
addToTotalOverwriting(total, key, value) ==
    CASE key \in CountKeys -> [total EXCEPT ![key] = value]
      [] key = "time" -> [total EXCEPT !.time = @ + parseInt(value)]
      [] OTHER -> total

\* the second switch of the row loop, lines 288-304
addToTotal(total, key, value) ==
    CASE key \in CountKeys -> [total EXCEPT ![key] = @ + value]
      [] key = "time" -> [total EXCEPT !.time = @ + parseInt(value)]
      [] OTHER -> total

\* the link of lines 274 and 279
countLink(where, postfix, value) ==
    LinkCell(makeJumpLink(where, postfix, FALSE), makeAnchorId(where, postfix, TRUE),
             toString(value))

\* the first switch of the row loop without the `value > 0` test of line 274
summaryCellLinksZero(key, value, failureWhere, skipWhere, show) ==
    CASE key \in {"failures", "errors"} -> countLink(failureWhere, failurePostfix, value)
      [] key = "skipped" ->
            IF value > 0
            THEN (IF show THEN countLink(skipWhere, skipPostfix, value) ELSE Cell(toString(value)))
            ELSE Cell(<<"0">>)
      [] key = "tests" -> Cell(toString(value))
      [] OTHER -> Cell(value)

\* the first switch of the row loop, lines 270-286, when no anchor has to be made of null
summaryCell(key, value, failureWhere, skipWhere, show) ==
    CASE key \in {"failures", "errors"} ->
            IF value > 0 THEN countLink(failureWhere, failurePostfix, value) ELSE Cell(<<"0">>)
      [] key = "skipped" ->
            IF value > 0
            THEN (IF show THEN countLink(skipWhere, skipPostfix, value) ELSE Cell(toString(value)))
            ELSE Cell(<<"0">>)
      [] key = "tests" -> Cell(toString(value))
      [] OTHER -> Cell(value)

\* makeAnchorId as if it took a null where for the text "null" instead of throwing
cellThrowsNever(key, value, failureWhere, skipWhere, show) == FALSE

\* whether building the cell calls makeAnchorId with a null where (TypeError, line 68)
cellThrows(key, value, failureWhere, skipWhere, show) ==
    \/ key \in {"failures", "errors"} /\ value > 0 /\ failureWhere = NullWhere
    \/ key = "skipped" /\ value > 0 /\ show /\ skipWhere = NullWhere

\* Object.entries(summary).forEach of lines 269-305: the row and the totals grow key by
\* key, and a throw leaves the totals with what the earlier keys added
RECURSIVE buildRow(_, _, _, _, _, _, _)
buildRow(summary, i, row, total, failureWhere, skipWhere, show) ==
    IF i > Len(summary) THEN [thrown |-> FALSE, row |-> row, total |-> total]
    ELSE LET key == summary[i][1]
             value == summary[i][2]
         IN  IF cellThrows(key, value, failureWhere, skipWhere, show)
             THEN [thrown |-> TRUE, row |-> row, total |-> total]
             ELSE buildRow(summary, i + 1,
                           Append(row, summaryCell(key, value, failureWhere, skipWhere, show)),
                           addToTotal(total, key, value), failureWhere, skipWhere, show)

\* `if (failure)` of line 308
registersFailure(failure) == failure # NullTable

\* line 312 without the showSkipped test
registersSkipAlways(show, skip) == skip # NullTable

\* `if (showSkipped && skip)` of line 312
registersSkip(show, skip) == show /\ skip # NullTable

\* failures[failureWhere] = failure, lines 309 and 313. failures and skips are plain
\* objects (lines 241 and 246): assigning a table to the key __proto__ runs the accessor
\* of Object.prototype, which changes the object's prototype and adds no own property,
\* so Object.entries (lines 335 and 341) never lists it
register(obj, key, table) ==
    IF key = Proto THEN obj ELSE setKey(obj, key, table)

\* totalRow of lines 323-328
totalRow(total) ==
    <<Cell(<<"Total">>), Cell(toString(total.tests)), Cell(toString(total.skipped)),
      Cell(toString(total.failures)), Cell(toString(total.errors)), Cell(NA),
      Cell(toString(total.time))>>

\* blocks of core.summary
Heading(text, level) == [kind |-> "heading", level |-> level, text |-> text]
Raw(text) == [kind |-> "raw", text |-> text]
Table(rows) == [kind |-> "table", rows |-> rows]
\* the heading of a detail section, lines 336 and 342: its own anchor id and its back-link
DetailHeading(section, where, postfix) ==
    [kind |-> "detail", level |-> 2, section |-> section, where |-> where,
     id |-> makeAnchorId(where, postfix, FALSE),
     href |-> makeJumpLink(where, postfix, TRUE)]

\* Object.entries(obj).forEach(addHeading; addTable), lines 335-345
RECURSIVE detailSections(_, _, _, _)
detailSections(obj, i, section, postfix) ==
    IF i > Len(obj) THEN <<>>
    ELSE <<DetailHeading(section, obj[i][1], postfix), Table(obj[i][2])>>
         \o detailSections(obj, i + 1, section, postfix)

----------------------------------------------------------------------------
(* The run: top-level script of lines 348-358 around main *)

Title == <<"Android Test Report">>
Notice == <<"No test reports found.">>

RECURSIVE usedCases(_, _)
usedCases(l, i) == IF i > Len(l) THEN 0 ELSE Len(l[i].file.cases) + usedCases(l, i + 1)

RECURSIVE usedCounts(_, _)
usedCounts(l, i) ==
    IF i > Len(l) THEN 0
    ELSE declared(l[i].file, "skipped") + declared(l[i].file, "failures")
         + declared(l[i].file, "errors") + usedCounts(l, i + 1)

anchorIdle == [where |-> <<>>, postfix |-> <<>>, back |-> FALSE]

Init ==
    /\ pc = "start"
    /\ showSkipped \in BOOLEAN
    /\ schema \in Schemas
    /\ nFiles \in 0..MaxFiles
    /\ idx = 0
    /\ report = <<>>
    /\ summaryTable = <<>>
    /\ summaryTotal = initialSummaryTotal
    /\ failures = <<>>
    /\ skips = <<>>
    /\ log = <<>>
    /\ reads = <<>>
    /\ failedMsg = <<>>
    /\ written = <<>>
    /\ anchorIn = anchorIdle
    /\ anchorOut = <<>>

\* the catch clause of lines 356-358: core.setFailed(error.message)
setFailed(msgs, message) == Append(msgs, message)

\* main up to the forEach: lines 221-259
Start ==
    /\ pc = "start"
    /\ report' = <<Heading(Title, 1)>>
    /\ summaryTable' = createSummaryTable
    /\ summaryTotal' = initialSummaryTotal
    /\ failures' = <<>>
    /\ skips' = <<>>
    /\ pc' = IF nFiles = 0 THEN "finish" ELSE "loop"
    /\ UNCHANGED <<showSkipped, schema, nFiles, idx, log, reads, failedMsg, written,
                   anchorIn, anchorOut>>

\* one callback of files.forEach, lines 261-315, on the file read at that moment, whose
\* test cases are drawn from caseDomain
forEachCallback(caseDomain) ==
    /\ pc = "loop"
    /\ idx < nFiles
    /\ \E n \in 0..(MaxCases - usedCases(log, 1)), fault \in {"none", "read", "xml"} :
       \E cases \in [1..n -> caseDomain],
          c \in CountChoices(schema, MaxCount - usedCounts(log, 1)) :
         /\ fault # "none" => n = 0 /\ \A k \in DOMAIN c : c[k] = 0
         /\ \E ret \in {parseXML(IF fault = "none" THEN GoodFile(schema, c, cases)
                                   ELSE BadFile(schema, fault))} :
            \E failureWhere \in {whereOf(ret.failure)}, skipWhere \in {whereOf(ret.skip)} :
            \E built \in {buildRow(ret.summary, 1, <<>>, summaryTotal, failureWhere, skipWhere,
                                   showSkipped)} :
              LET ok == ret.thrown = "none" /\ ~built.thrown
                  regF == ok /\ registersFailure(ret.failure)
                  regS == ok /\ registersSkip(showSkipped, ret.skip)
              IN  /\ idx' = idx + 1
                  /\ log' = Append(log, [file |-> ret.file, failure |-> ret.failure,
                                         skip |-> ret.skip, failureWhere |-> failureWhere,
                                         skipWhere |-> skipWhere, completed |-> ok])
                  /\ reads' = Append(reads, IF ok THEN "added" ELSE "thrown")
                  /\ summaryTotal' = IF ret.thrown = "none" THEN built.total ELSE summaryTotal
                  /\ summaryTable' = IF ok THEN Append(summaryTable, built.row) ELSE summaryTable
                  /\ failures' = IF regF THEN register(failures, failureWhere, ret.failure)
                                 ELSE failures
                  /\ skips' = IF regS THEN register(skips, skipWhere, ret.skip) ELSE skips
                  /\ failedMsg' = IF ret.thrown # "none" THEN setFailed(failedMsg, ret.thrown)
                                  ELSE IF built.thrown THEN setFailed(failedMsg, "anchor")
                                  ELSE failedMsg
                  /\ pc' = IF ~ok THEN "done"
                           ELSE IF idx + 1 = nFiles THEN "finish" ELSE "loop"
    /\ UNCHANGED <<showSkipped, schema, nFiles, report, written, anchorIn, anchorOut>>

\* a callback on a file of any schema
ProcessFile == forEachCallback(TestCases)

\* a callback on a file whose test cases differ in their times
ProcessTimedFile == forEachCallback(TimedCases)

\* main after the forEach: lines 317-345
Finish ==
    /\ pc = "finish"
    /\ LET table == Append(summaryTable, totalRow(summaryTotal))
       IN  /\ summaryTable' = table
           /\ report' = report
                \o (IF nFiles = 0 THEN <<Raw(Notice)>> ELSE <<>>)
                \o <<Heading(<<"Summary">>, 2), Table(table)>>
                \o detailSections(failures, 1, "Failures", failurePostfix)
                \o (IF showSkipped THEN detailSections(skips, 1, "Skipped", skipPostfix)
                    ELSE <<>>)
    /\ pc' = "write"
    /\ UNCHANGED <<showSkipped, schema, nFiles, idx, summaryTotal, failures, skips, log,
                   reads, failedMsg, written, anchorIn, anchorOut>>

\* await core.summary.write() of line 355 completes
WriteSummary ==
    /\ pc = "write"
    /\ written' = Append(written, "ok")
    /\ pc' = "done"
    /\ UNCHANGED <<showSkipped, schema, nFiles, idx, report, summaryTable, summaryTotal, failures,
                   skips, log, reads, failedMsg, anchorIn, anchorOut>>

\* await core.summary.write() of line 355 rejects (the sink cannot be written) and the
\* catch clause runs
WriteFails ==
    /\ pc = "write"
    /\ written' = Append(written, "rejected")
    /\ failedMsg' = setFailed(failedMsg, "sink")
    /\ pc' = "done"
    /\ UNCHANGED <<showSkipped, schema, nFiles, idx, report, summaryTable, summaryTotal, failures,
                   skips, log, reads, anchorIn, anchorOut>>

Next == Start \/ ProcessFile \/ Finish \/ WriteSummary \/ WriteFails

Spec == Init /\ [][Next]_vars

\* the run on files of the standard schema whose test cases differ in their times
InitKeys == Init /\ schema = StandardSchema

NextKeys == Start \/ ProcessTimedFile \/ Finish \/ WriteSummary \/ WriteFails

SpecKeys == InitKeys /\ [][NextKeys]_vars

----------------------------------------------------------------------------
(* The callback-based variant (src/index.mjs lines 360-492): parseXML hands the file  *)
(* to fs.readFile and returns; the callback runs when the read completes.              *)

\* the path of the i-th discovered file
xmlFileName(i) == <<"T", "E", "S", "T", "-">> \o toString(i)

\* the callback given to fs.readFile, lines 383-454, on a file read as `file`: what it
\* adds to core.summary and how it ends. A read error is rethrown on line 384 and a
\* parser error on line 396, after the heading of line 392. For a decoded document,
\* result.testsuite is the record of the root element (the one line 128 reads .$ and
\* .testcase of), which has no element 0: root is undefined on line 397 and root.$
\* throws on line 398, so lines 400-452 add nothing.
readFileCallback(xmlFile, file) ==
    IF file.fault = "read" THEN [thrown |-> "read", blocks |-> <<>>]
    ELSE IF file.fault = "xml" THEN [thrown |-> "xml", blocks |-> <<Heading(xmlFile, 2)>>]
    ELSE [thrown |-> "root", blocks |-> <<Heading(xmlFile, 2)>>]

\* the files whose read has begun and whose callback has not run
PendingReads == { i \in 1..Len(reads) : reads[i] = "pending" }

InitCallback ==
    /\ pc = "start"
    /\ showSkipped = FALSE
    /\ schema = StandardSchema
    /\ nFiles \in 0..MaxReads
    /\ idx = 0
    /\ report = <<>>
    /\ summaryTable = <<>>
    /\ summaryTotal = initialSummaryTotal
    /\ failures = <<>>
    /\ skips = <<>>
    /\ log = <<>>
    /\ reads = <<>>
    /\ failedMsg = <<>>
    /\ written = <<>>
    /\ anchorIn = anchorIdle
    /\ anchorOut = <<>>

\* main up to the forEach: lines 463-469
StartCallback ==
    /\ pc = "start"
    /\ report' = <<Heading(Title, 1)>>
    /\ pc' = IF nFiles = 0 THEN "finish" ELSE "loop"
    /\ UNCHANGED <<showSkipped, schema, nFiles, idx, summaryTable, summaryTotal, failures,
                   skips, log, reads, failedMsg, written, anchorIn, anchorOut>>

\* one callback of files.forEach, lines 471-473: parseXML (lines 377-383) calls
\* fs.readFile and returns at once
RequestRead ==
    /\ pc = "loop"
    /\ idx < nFiles
    /\ idx' = idx + 1
    /\ reads' = Append(reads, "pending")
    /\ pc' = IF idx + 1 = nFiles THEN "finish" ELSE "loop"
    /\ UNCHANGED <<showSkipped, schema, nFiles, report, summaryTable, summaryTotal, failures,
                   skips, log, failedMsg, written, anchorIn, anchorOut>>

\* main after the forEach (lines 475-479) returns and the top-level script calls
\* core.summary.write() (line 489) in the same turn of the event loop
ReturnAndWrite ==
    /\ pc = "finish"
    /\ report' = report \o (IF nFiles = 0 THEN <<Raw(Notice)>> ELSE <<>>)
    /\ pc' = "write"
    /\ UNCHANGED <<showSkipped, schema, nFiles, idx, summaryTable, summaryTotal, failures,
                   skips, log, reads, failedMsg, written, anchorIn, anchorOut>>

\* the read of a file completes, in any order, and its callback runs: this can only be
\* in a later turn of the event loop, while core.summary.write() is awaited or after it.
\* The callback throws outside the try of lines 482-492: nothing catches it and the
\* process ends, with a pending write of the summary either done or lost.
ReadCallback ==
    /\ pc \in {"write", "done"}
    /\ \E i \in PendingReads, fault \in {"none", "read", "xml"} :
         \E ret \in {readFileCallback(xmlFileName(i), BadFile(schema, fault))} :
           /\ report' = report \o ret.blocks
           /\ reads' = [reads EXCEPT ![i] = "thrown"]
           /\ log' = Append(log, [file |-> i, thrown |-> ret.thrown])
    /\ written' \in IF pc = "write" THEN {written, Append(written, "ok")} ELSE {written}
    /\ pc' = "crashed"
    /\ UNCHANGED <<showSkipped, schema, nFiles, idx, summaryTable, summaryTotal, failures,
                   skips, failedMsg, anchorIn, anchorOut>>

NextCallback ==
    StartCallback \/ RequestRead \/ ReturnAndWrite \/ ReadCallback \/ WriteSummary \/ WriteFails

SpecCallback == InitCallback /\ [][NextCallback]_vars

----------------------------------------------------------------------------
(* makeAnchorId on its own: one call on an argument drawn from the labels below *)

AnchorAlphabet == {"a", "b", "B", "1", "."}

RECURSIVE LabelsOfLen(_)
LabelsOfLen(n) ==
    IF n = 0 THEN { <<>> }
    ELSE { Append(l, ch) : l \in LabelsOfLen(n - 1), ch \in AnchorAlphabet }

ShortLabels == UNION { LabelsOfLen(n) : n \in 1..MaxLabelLen }

\* the short labels, and labels that spell out a postfix or the back-link prefix themselves
AnchorLabels ==
    ShortLabels
        \cup { l \o <<"-">> \o failurePostfix : l \in ShortLabels }
        \cup { l \o <<"-">> \o skipPostfix : l \in ShortLabels }
        \cup { BackPrefix \o l : l \in ShortLabels }

Postfixes == {NoPostfix, failurePostfix, skipPostfix}

AnchorInputs == [where : AnchorLabels, postfix : Postfixes, back : BOOLEAN]

InitAnchor ==
    /\ pc = "anchor"
    /\ showSkipped = FALSE
    /\ schema = <<>>
    /\ nFiles = 0
    /\ idx = 0
    /\ report = <<>>
    /\ summaryTable = <<>>
    /\ summaryTotal = initialSummaryTotal
    /\ failures = <<>>
    /\ skips = <<>>
    /\ log = <<>>
    /\ reads = <<>>
    /\ failedMsg = <<>>
    /\ written = <<>>
    /\ anchorIn \in AnchorInputs
    /\ anchorOut = <<>>

CallMakeAnchorId ==
    /\ pc = "anchor"
    /\ anchorOut' = makeAnchorId(anchorIn.where, anchorIn.postfix, anchorIn.back)
    /\ pc' = "anchored"
    /\ UNCHANGED <<showSkipped, schema, nFiles, idx, report, summaryTable, summaryTotal, failures,
                   skips, log, reads, failedMsg, written, anchorIn>>

NextAnchor == CallMakeAnchorId

SpecAnchor == InitAnchor /\ [][NextAnchor]_vars

----------------------------------------------------------------------------
(* Vocabulary of the properties *)

\* main has returned: the Summary heading and table are in the report
MainReturned == pc \in {"write", "done"} /\ Len(report) >= 2

\* the file of log entry i was read and decoded without an exception
Decoded(i) == log[i].file.fault = "none" /\ Len(log[i].file.cases) > 0

FailedCases(i) == SelectSeq(log[i].file.cases, LAMBDA c : c.outcome = "Failed")
SkippedCases(i) == SelectSeq(log[i].file.cases, LAMBDA c : c.outcome = "Skipped")

RECURSIVE DeclaredSum(_, _)
DeclaredSum(key, i) ==
    IF i = 0 THEN 0 ELSE declared(log[i].file, key) + DeclaredSum(key, i - 1)

\* columns of the summary table
ColSkipped == 3
ColFailures == 4
ColErrors == 5

\* the summary row of log entry i (rows are pushed only by callbacks that complete)
RowOf(i) == summaryTable[i + 1]

\* positions of the suite rows in the summary table once main has returned
SuiteRows == 2..(Len(summaryTable) - 1)

DetailHeadings == { k \in 1..Len(report) : report[k].kind = "detail" }

\* <<row, column>> of every count cell that shows a nonzero count
NonzeroCountCells ==
    { rc \in SuiteRows \X {ColSkipped, ColFailures, ColErrors} :
        summaryTable[rc[1]][rc[2]].text # <<"0">> }

HasKey(obj, key) == \E k \in 1..Len(obj) : obj[k][1] = key

----------------------------------------------------------------------------
(* C1 *)

\* C1: once main has processed all its files without error, the tests, skipped,
\* failures and errors cells of the Totals row are the decimal text of the sums of the
\* counts the files declare (an undeclared count adds 0), whatever the test cases hold.
TotalsAreDeclaredSums ==
    MainReturned =>
        LET totals == summaryTable[Len(summaryTable)]
        IN  /\ Len(log) = nFiles
            /\ totals[2] = Cell(toString(DeclaredSum("tests", Len(log))))
            /\ totals[3] = Cell(toString(DeclaredSum("skipped", Len(log))))
            /\ totals[4] = Cell(toString(DeclaredSum("failures", Len(log))))
            /\ totals[5] = Cell(toString(DeclaredSum("errors", Len(log))))

\* two suites, each declaring a failure or an error, whose declared failures (1) differ
\* from the number of cases that carry a failure element (2)
TotalsWitness ==
    /\ MainReturned
    /\ Len(log) = 2
    /\ declared(log[1].file, "failures") = 1
    /\ declared(log[2].file, "errors") = 1
    /\ DeclaredSum("failures", 2) = 1
    /\ Len(FailedCases(1)) + Len(FailedCases(2)) = 2
    /\ summaryTable[Len(summaryTable)][2].text = <<"2">>

----------------------------------------------------------------------------
(* C2 *)

\* C2: in a completed report every count cell showing a nonzero failures, errors or
\* skipped count is a link to the id of exactly one detail heading, and every detail
\* heading's back-link targets an id carried by exactly one such cell.
LinksAreOneToOne ==
    MainReturned =>
        /\ \A rc \in NonzeroCountCells :
             LET cell == summaryTable[rc[1]][rc[2]]
             IN  /\ IsLink(cell)
                 /\ Cardinality({ h \in DetailHeadings :
                                    <<"#user-content-">> \o report[h].id = cell.href }) = 1
        /\ \A h \in DetailHeadings :
             Cardinality({ rc \in NonzeroCountCells :
                             LET cell == summaryTable[rc[1]][rc[2]]
                             IN  IsLink(cell)
                                 /\ <<"#user-content-">> \o cell.id = report[h].href }) = 1

----------------------------------------------------------------------------
(* C3, C4, C5 *)

\* C3: when no report file is discovered, the report handed to the sink holds only the
\* top-level heading and the "no reports found" notice.
EmptyRunReportIsHeadingAndNotice ==
    (nFiles = 0 /\ pc \in {"write", "done"}) => report = <<Heading(Title, 1), Raw(Notice)>>

\* C4: when no report file is discovered, the run has signalled failure (core.setFailed)
\* by the time it ends.
EmptyRunSignalsFailure ==
    (nFiles = 0 /\ pc = "done") => failedMsg # <<>>

\* C5: when reading or decoding a file raised an error, the run ends with failure
\* signalled and with core.summary.write() having been called.
ReadErrorStillWrites ==
    (pc = "done" /\ \E i \in 1..Len(log) : log[i].file.fault # "none")
        => (failedMsg # <<>> /\ written # <<>>)

----------------------------------------------------------------------------
(* C6 *)

ZeroFailuresAndErrors(i) ==
    Decoded(i) /\ declared(log[i].file, "failures") = 0 /\ declared(log[i].file, "errors") = 0

\* C6 as stated: a suite that declares zero failures and zero errors gets no failure
\* table, no failure detail section is registered for it, and its failures and errors
\* cells are the literal "0", whatever its test cases contain.
ZeroCountsMeanNoFailureTable ==
    \A i \in 1..Len(log) :
        ZeroFailuresAndErrors(i) =>
            /\ log[i].failure = NullTable
            /\ ~HasKey(failures, log[i].failureWhere)
            /\ log[i].completed =>
                 RowOf(i)[ColFailures] = Cell(<<"0">>) /\ RowOf(i)[ColErrors] = Cell(<<"0">>)

\* C6 amended: for a suite that declares zero failures and zero errors, the failures and
\* errors cells of its row are the literal "0" without a link; its failure table exists
\* exactly when one of its cases carries a failure element, and failures holds a table
\* under the name of the first such case exactly when there is such a case and its name
\* is not __proto__.
ZeroCountsShowZeroButTableFollowsCases ==
    \A i \in 1..Len(log) :
        ZeroFailuresAndErrors(i) =>
            /\ (log[i].failure # NullTable) <=> (Len(FailedCases(i)) > 0)
            /\ log[i].completed =>
                 /\ RowOf(i)[ColFailures] = Cell(<<"0">>)
                 /\ RowOf(i)[ColErrors] = Cell(<<"0">>)
                 /\ HasKey(failures, log[i].failureWhere)
                      <=> (Len(FailedCases(i)) > 0 /\ log[i].failureWhere # Proto)

\* a finished report with a suite that declares no failure and no error, has a Failed
\* case, and got a failure detail section
ZeroCountsWitness ==
    /\ MainReturned
    /\ \E i \in 1..Len(log) :
         /\ ZeroFailuresAndErrors(i)
         /\ Len(FailedCases(i)) > 0
         /\ \E h \in DetailHeadings :
              report[h].section = "Failures" /\ report[h].where = log[i].failureWhere

----------------------------------------------------------------------------
(* C7 *)

\* C7 as stated: for every suite a skip table is produced and registered if and only if
\* show-skipped is enabled, however many of its cases are Skipped.
SkipTableIffShowSkipped ==
    \A i \in 1..Len(log) :
        log[i].completed =>
            ((log[i].skip # NullTable /\ HasKey(skips, log[i].skipWhere)) <=> showSkipped)

\* C7 amended: for every suite whose callback completes, parseXML produces a skip table
\* exactly when one of its cases is Skipped (whatever show-skipped is), and skips holds a
\* table under the name of the first Skipped case exactly when show-skipped is enabled,
\* one of its cases is Skipped and that name is not __proto__.
SkipTableFollowsCasesAndOption ==
    \A i \in 1..Len(log) :
        /\ Decoded(i) => ((log[i].skip # NullTable) <=> (Len(SkippedCases(i)) > 0))
        /\ log[i].completed =>
             (HasKey(skips, log[i].skipWhere)
                <=> (showSkipped /\ Len(SkippedCases(i)) > 0 /\ log[i].skipWhere # Proto))

\* a finished run with show-skipped enabled, one suite with a Skipped case (registered)
\* and one suite without (no skip table)
SkipTableWitness ==
    /\ MainReturned
    /\ showSkipped
    /\ \E i, j \in 1..Len(log) :
         /\ Len(SkippedCases(i)) > 0 /\ HasKey(skips, log[i].skipWhere)
         /\ Len(SkippedCases(j)) = 0 /\ log[j].skip = NullTable

----------------------------------------------------------------------------
(* C8 *)

\* C8: for every suite with at least one Failed case, parseXML returns one failure table
\* whose rows after the header are the Failed cases in their original order (five cells
\* each, the first being the case's name), and the `where` key main derives from it is
\* the name of the first Failed case.
FailureTableListsFailedCasesInOrder ==
    \A i \in 1..Len(log) :
        (Decoded(i) /\ Len(FailedCases(i)) > 0) =>
            LET t == log[i].failure
                f == FailedCases(i)
            IN  /\ Len(t) = Len(f) + 1
                /\ t[1] = createFailureTable[1]
                /\ \A j \in 1..Len(f) : Len(t[j + 1]) = 5 /\ t[j + 1][1] = Cell(f[j].name)
                /\ log[i].failureWhere = f[1].name

\* a suite with two Failed cases of different names
FailureTableWitness ==
    \E i \in 1..Len(log) :
        /\ Decoded(i)
        /\ Len(FailedCases(i)) = 2
        /\ FailedCases(i)[1].name # FailedCases(i)[2].name
        /\ Len(log[i].failure) = 3

----------------------------------------------------------------------------
(* C9 *)

\* C9: every row of the summary table, suite rows and Totals row alike, has seven cells,
\* whatever attributes the suite declares.
EveryRowHasSevenCells ==
    \A r \in 1..Len(summaryTable) : Len(summaryTable[r]) = 7

----------------------------------------------------------------------------
(* C10, under SpecAnchor *)

\* C10 as stated: makeAnchorId gives two arguments the same id if and only if their
\* label, postfix and direction are all equal.
AnchorIdInjective ==
    pc = "anchored" =>
        \A other \in AnchorInputs :
            (makeAnchorId(other.where, other.postfix, other.back) = anchorOut)
                <=> (other = anchorIn)

\* C10 amended: among labels with the same kebab-case form (in particular for one
\* label), makeAnchorId gives the same id if and only if postfix and direction are
\* equal; labels that differ only in what the kebab-case form erases share their ids.
AnchorIdInjectiveInPostfixAndDirection ==
    pc = "anchored" =>
        \A l \in AnchorLabels :
            kebabCase(l) = kebabCase(anchorIn.where) =>
                \A p \in Postfixes, b \in BOOLEAN :
                    (makeAnchorId(l, p, b) = anchorOut)
                        <=> (p = anchorIn.postfix /\ b = anchorIn.back)

\* a back-link id with a postfix has been made for a label that shares its kebab-case
\* form with a different label
AnchorWitness ==
    /\ pc = "anchored"
    /\ anchorIn.back
    /\ anchorIn.postfix = failurePostfix
    /\ \E l \in AnchorLabels : l # anchorIn.where /\ kebabCase(l) = kebabCase(anchorIn.where)

----------------------------------------------------------------------------
(* C11, under SpecKeys *)

\* the suites that returned a failure (skip) table whose where key is that of suite i
SameFailureKey(i) ==
    { j \in 1..Len(log) :
        log[j].failure # NullTable /\ log[j].failureWhere = log[i].failureWhere }
SameSkipKey(i) ==
    { j \in 1..Len(log) : log[j].skip # NullTable /\ log[j].skipWhere = log[i].skipWhere }

Last(S) == CHOOSE j \in S : \A k \in S : k <= j

\* the detail headings of a section for a where key
SectionsOf(section, where) ==
    { h \in DetailHeadings : report[h].section = section /\ report[h].where = where }

\* the where keys of the suites that have a Failed case
FailureKeys == { log[i].failureWhere : i \in { j \in 1..Len(log) : Len(FailedCases(j)) > 0 } }

\* C11: when main has returned, the run has not failed in main; for every where key that
\* two or more suites resolve to there is exactly one detail section, and its table is
\* the table of the last of these suites; and the number of failure detail sections is
\* the number of distinct where keys among the suites that have a Failed case.
LastWriteWins ==
    MainReturned =>
        /\ pc = "write" => failedMsg = <<>>
        /\ \A i \in 1..Len(log) :
             Cardinality(SameFailureKey(i)) >= 2 =>
                 /\ Cardinality(SectionsOf("Failures", log[i].failureWhere)) = 1
                 /\ \A h \in SectionsOf("Failures", log[i].failureWhere) :
                      report[h + 1] = Table(log[Last(SameFailureKey(i))].failure)
        /\ \A i \in 1..Len(log) :
             (showSkipped /\ Cardinality(SameSkipKey(i)) >= 2) =>
                 /\ Cardinality(SectionsOf("Skipped", log[i].skipWhere)) = 1
                 /\ \A h \in SectionsOf("Skipped", log[i].skipWhere) :
                      report[h + 1] = Table(log[Last(SameSkipKey(i))].skip)
        /\ Cardinality({ h \in DetailHeadings : report[h].section = "Failures" })
             = Cardinality(FailureKeys)

\* what the code does instead: the same with no section at all for the key __proto__
LastWriteWinsButProto ==
    MainReturned =>
        /\ pc = "write" => failedMsg = <<>>
        /\ \A i \in 1..Len(log) :
             log[i].failure # NullTable =>
                 /\ Cardinality(SectionsOf("Failures", log[i].failureWhere))
                      = IF log[i].failureWhere = Proto THEN 0 ELSE 1
                 /\ \A h \in SectionsOf("Failures", log[i].failureWhere) :
                      report[h + 1] = Table(log[Last(SameFailureKey(i))].failure)
        /\ \A i \in 1..Len(log) :
             (showSkipped /\ log[i].skip # NullTable) =>
                 /\ Cardinality(SectionsOf("Skipped", log[i].skipWhere))
                      = IF log[i].skipWhere = Proto THEN 0 ELSE 1
                 /\ \A h \in SectionsOf("Skipped", log[i].skipWhere) :
                      report[h + 1] = Table(log[Last(SameSkipKey(i))].skip)
        /\ Cardinality({ h \in DetailHeadings : report[h].section = "Failures" })
             = Cardinality(FailureKeys \ {Proto})

\* two suites whose first Failed case has the same ordinary name and whose failure
\* tables differ: the one detail section shows the table of the second suite
LastWriteWinsWitness ==
    /\ MainReturned
    /\ Len(log) = 2
    /\ log[1].failure # NullTable
    /\ log[1].failureWhere = log[2].failureWhere
    /\ log[1].failureWhere # Proto
    /\ log[1].failure # log[2].failure
    /\ \E h \in DetailHeadings : report[h + 1] = Table(log[2].failure)

\* two suites whose first Failed case is named __proto__, and no failure detail section
ProtoKeyWitness ==
    /\ MainReturned
    /\ Len(log) = 2
    /\ log[1].failureWhere = Proto
    /\ log[2].failureWhere = Proto
    /\ { h \in DetailHeadings : report[h].section = "Failures" } = {}

----------------------------------------------------------------------------
(* C13 *)

\* suite i was read and decoded, and declares a count whose link needs a detail table
\* that none of its cases gives
DeclaresWithoutDetail(i) ==
    /\ Decoded(i)
    /\ \/ /\ declared(log[i].file, "failures") > 0 \/ declared(log[i].file, "errors") > 0
          /\ Len(FailedCases(i)) = 0
       \/ /\ showSkipped
          /\ declared(log[i].file, "skipped") > 0
          /\ Len(SkippedCases(i)) = 0

\* C13: a suite that declares failures or errors but has no case with a failure element
\* (or, with show-skipped enabled, declares skipped but has no Skipped case) has a null
\* where label, building its anchor throws, and the run ends there: the suite gets no
\* row, no later file is processed, the report gets no summary table, failure is
\* signalled with the anchor's error, and core.summary.write() is never called.
NullWhereAbortsRun ==
    \A i \in 1..Len(log) :
        DeclaresWithoutDetail(i) =>
            /\ log[i].failureWhere = NullWhere \/ log[i].skipWhere = NullWhere
            /\ ~log[i].completed
            /\ i = Len(log)
            /\ pc = "done"
            /\ Len(summaryTable) = i
            /\ \A k \in 1..Len(report) : report[k].kind # "table"
            /\ failedMsg = <<"anchor">>
            /\ written = <<>>

\* the first of two files declares one skipped test that no case carries, with
\* show-skipped enabled: the run has ended without reading the second file
NullWhereWitness ==
    /\ nFiles = 2
    /\ Len(log) = 1
    /\ showSkipped
    /\ DeclaresWithoutDetail(1)
    /\ declared(log[1].file, "failures") = 0
    /\ declared(log[1].file, "errors") = 0
    /\ pc = "done"

----------------------------------------------------------------------------
(* C12, under SpecCallback *)

\* core.summary.write() has been called
WriteStarted == pc = "write" \/ written # <<>>

\* C12: a file's read begins only when every earlier file has been read and transformed
\* to completion, and core.summary.write() is called only when every discovered file's
\* blocks are in the report, so that no read callback is still to run at or after the
\* write.
FilesInSequenceThenWrite ==
    /\ \A i \in 1..Len(reads) : reads[i] = "pending" => i = Len(reads)
    /\ WriteStarted =>
         /\ Len(reads) = nFiles
         /\ \A i \in 1..nFiles : reads[i] = "added"
         /\ PendingReads = {}

\* in the callback-based variant two reads are in flight when the write is called, and
\* a callback has run afterwards
ReadsOverlapWriteWitness ==
    /\ nFiles = 2
    /\ WriteStarted
    /\ reads = <<"pending", "thrown">>
    /\ Len(report) = 2

====
